---- MODULE Spec2Model ----
(***************************************************************************)
(* Model of server.py: the bounded image store (upload_image,              *)
(* load_existing_images), the background cycling thread (cycle_images,     *)
(* start_cycling), and the HTTP handlers that control them.                *)
(*                                                                         *)
(* An image file is identified by the second its name is derived from      *)
(* (image_<YYYYMMDD_HHMMSS>.jpg, server.py:216-217): file names are the    *)
(* naturals 1, 2, ...; 0 stands for "no image".                            *)
(*                                                                         *)
(* The request handlers are coroutines on one event loop and hold no       *)
(* await after reading the body, so they are atomic with respect to each   *)
(* other.  cycle_images runs in its own thread and interleaves with a      *)
(* handler at every step; upload_image is therefore split where the loop   *)
(* can observe it: after the append (server.py:224-227, create_thumbnail   *)
(* does file I/O) and at the eviction and render (server.py:229-241).      *)
(***************************************************************************)
EXTENDS Integers, Sequences, FiniteSets

\* ---------------------------------------------------------------- bounds
\* Files already in the upload directory when the process starts: 1..MaxOld.
MaxOld == 1
\* Number of distinct seconds of the wall clock in which requests arrive.
MaxSeconds == 2
\* CONFIG["max_images"] starts in 1..MaxMaxImages; update_config may set any
\* value in 0..MaxMaxImages.
MaxMaxImages == 2
\* Appends to image_files that are followed (startup's load included).
MaxInserts == 3
\* Thread objects that can exist at once.
MaxThreads == 2
\* Window of the tick counter kept for the cursor arithmetic.
MaxTicks == 2

OldNames == 1..MaxOld
FirstSecond == MaxOld + 1
LastSecond == MaxOld + MaxSeconds
Threads == 1..MaxThreads
MaxImagesValues == 0..MaxMaxImages
NoImage == 0
NoThread == 0

VARIABLES
    image_files,          \* server.py:50   the collection, oldest first
    current_image_index,  \* server.py:49   the cursor
    cycling_enabled,      \* server.py:51
    cycle_thread,         \* server.py:52   NoThread or the latest thread
    CONFIG,               \* server.py:25   the configuration record
    config_json,          \* the file config.json: NoFile or the JSON object in it
    HEIC_SUPPORT,         \* server.py:14-19  pillow_heif could be imported
    panel_ok,             \* the e-ink panel accepts set_image / show
    disk,                 \* UPLOAD_DIR: file name -> st_mtime, for the files present
    thumbs,               \* UPLOAD_DIR/thumbnails: names that have a thumbnail
    clock,                \* datetime.now() at one-second resolution
    shown,                \* the image on the panel (NoImage: none yet)
    booted,               \* startup_event has run
    pc,                   \* per thread: position in cycle_images
    img,                  \* per thread: the path handed to display_image
    req,                  \* the upload in flight: [pc, filepath]
    response,             \* HTTP status of the last completed request (0: none)
    inserted,             \* history: every path put in image_files, in order
    evicted,              \* history: every path popped from image_files
    base,                 \* history: cursor when the collection last changed
    ticks,                \* history: whole ticks since then
    clean                 \* history: per thread, its tick saw no change of the collection

vars == <<image_files, current_image_index, cycling_enabled, cycle_thread, CONFIG,
          config_json, HEIC_SUPPORT, panel_ok, disk, thumbs, clock, shown, booted, pc, img, req, response,
          inserted, evicted, base, ticks, clean>>

\* ------------------------------------------------------------- helpers
Range(s) == {s[i] : i \in 1..Len(s)}

Min(a, b) == IF a < b THEN a ELSE b

\* The last n elements of s (all of s when n >= Len(s)).
LastN(s, n) == SubSeq(s, Len(s) - Min(n, Len(s)) + 1, Len(s))

\* Python's s[-m:].
TailSlice(s, m) ==
    IF m > 0 THEN LastN(s, m)
    ELSE IF m = 0 THEN s
    ELSE SubSeq(s, Min(-m, Len(s)) + 1, Len(s))

NoDuplicates(s) == \A i, j \in 1..Len(s) : i # j => s[i] # s[j]

\* sorted(files, key=st_mtime): the orders ascending in mtime (ties in any order).
SortedByMtime(d) ==
    {s \in [1..Cardinality(DOMAIN d) -> DOMAIN d] :
        /\ \A i, j \in DOMAIN s : i < j => s[i] # s[j] /\ d[s[i]] <= d[s[j]]}

\* The file system after writing / removing a file.
WriteFile(d, f, t) == [x \in DOMAIN d \cup {f} |-> IF x = f THEN t ELSE d[x]]
Unlink(d, f) == [x \in DOMAIN d \ {f} |-> d[x]]

\* display_image (server.py:99-110): Image.open fails on a missing file, and
\* set_image / show fail on a broken panel.
\* display_image: what the panel shows afterwards; a failure leaves it as it was.
RenderFails(d, path) == path \notin DOMAIN d \/ ~panel_ok

display_image(d, path) == IF RenderFails(d, path) THEN shown ELSE path

\* Mutant of display_raises: the failure leaves display_image.
display_raises_Propagates(d, path) == RenderFails(d, path)

\* server.py:113-114: every Exception is caught inside display_image, so none
\* reaches the caller.
display_raises(d, path) == FALSE

\* create_thumbnail: creates the thumbnail unless it exists.
create_thumbnail(th, path) == th \cup {path}

\* The upload directory an earlier run left behind: the files S, their mtimes
\* given as ranks (equal mtimes add no order that distinct ones do not give).
OldDisks(S) == {d \in [S -> 1..Cardinality(S)] : \A x, y \in S : x # y => d[x] # d[y]}

\* ------------------------------------------------------- configuration
\* server.py:26-29.  saturation is counted in tenths (5 is 0.5).
DefaultMaxImages == 10
DefaultCycleInterval == 600
DefaultSaturation == 5

\* CONFIG as the module defines it (server.py:25-30).
DefaultConfig ==
    [max_images |-> DefaultMaxImages,
     cycle_interval |-> DefaultCycleInterval,
     display_size |-> [type |-> "tuple", items |-> <<800, 480>>],
     saturation |-> DefaultSaturation]

\* Mutant of Merge: a key already present keeps its value.
Merge_KeepOld(cfg, upd) ==
    [k \in DOMAIN cfg \cup DOMAIN upd |-> IF k \in DOMAIN cfg THEN cfg[k] ELSE upd[k]]

\* dict.update: the keys of upd replace or extend those of cfg.
Merge(cfg, upd) ==
    [k \in DOMAIN cfg \cup DOMAIN upd |-> IF k \in DOMAIN upd THEN upd[k] ELSE cfg[k]]

\* json.dump followed by json.load: numbers come back as they were, a tuple
\* comes back as a list.
JsonRoundTrip(cfg) ==
    [k \in DOMAIN cfg |->
        IF k = "display_size" THEN [type |-> "list", items |-> cfg[k].items] ELSE cfg[k]]

\* config.json is absent, or holds one JSON object.
NoFile == <<>>

\* server.py:272-273: the file after json.dump(CONFIG, f).
SaveConfig(cfg) == <<JsonRoundTrip(cfg)>>

\* server.py:738-741: the configuration a starting process ends up with.
LoadConfig(file) == IF file = NoFile THEN DefaultConfig ELSE Merge(DefaultConfig, file[1])

\* The bodies POST /api/config is followed with: a value for any subset of the
\* recognized fields.  The handler accepts whatever mapping it is given.
CycleIntervalValues == {0, DefaultCycleInterval}
SaturationValues == {3, 15}
FieldValues(k) ==
    CASE k = "max_images" -> MaxImagesValues
      [] k = "cycle_interval" -> CycleIntervalValues
      [] k = "saturation" -> SaturationValues
RequestsOver(S) ==
    {c \in [S -> MaxImagesValues \cup CycleIntervalValues \cup SaturationValues] :
        \A k \in S : c[k] \in FieldValues(k)}
ConfigRequests ==
    {c : c \in UNION {RequestsOver(S) :
                         S \in SUBSET {"max_images", "cycle_interval", "saturation"}}}

\* The configuration files an earlier run that set the limit has left.
LimitFiles == {SaveConfig([DefaultConfig EXCEPT !.max_images = m]) : m \in 1..MaxMaxImages}

\* ---------------------------------------------------------------- Init
\* The process has started: the globals of server.py:25-30 and 49-52, CONFIG
\* with config.json loaded over it, and whatever an earlier run left in the
\* upload directory.
InitWith(ConfigFiles, Heic, Panel) ==
    /\ image_files = <<>>
    /\ current_image_index = 0
    /\ cycling_enabled = TRUE
    /\ cycle_thread = NoThread
    /\ config_json \in ConfigFiles
    /\ CONFIG = LoadConfig(config_json)
    /\ HEIC_SUPPORT \in Heic
    /\ panel_ok \in Panel
    /\ \E S \in SUBSET OldNames : disk \in OldDisks(S)
    /\ thumbs \in SUBSET (DOMAIN disk)
    /\ clock = FirstSecond
    /\ shown = NoImage
    /\ booted = FALSE
    /\ pc = [t \in Threads |-> "none"]
    /\ img = [t \in Threads |-> NoImage]
    /\ req = [pc |-> "idle", filepath |-> NoImage]
    /\ response = 0
    /\ inserted = <<>>
    /\ evicted = {}
    /\ base = 0
    /\ ticks = 0
    /\ clean = [t \in Threads |-> FALSE]

\* A positive limit was configured; the codec is installed and the panel works.
Init == InitWith(LimitFiles, {TRUE}, {TRUE})

\* As Init, or no configuration was ever saved.
InitConfig == InitWith(LimitFiles \cup {NoFile}, {TRUE}, {TRUE})

\* The configuration files an earlier run can have left: update_config saves
\* any limit it is given, 0 included.
LoadFiles == {SaveConfig([DefaultConfig EXCEPT !.max_images = m]) : m \in MaxImagesValues}

\* As Init, the saved limit being any that update_config accepts.
InitLoad == InitWith(LoadFiles, {TRUE}, {TRUE})

\* As Init, with or without the codec and with a working or a broken panel.
InitEnv == InitWith(LimitFiles, BOOLEAN, BOOLEAN)

\* ------------------------------------------------------- the image store
\* load_existing_images (server.py:159-172).
load_existing_images ==
    \E s \in SortedByMtime(disk) :
        LET loaded == TailSlice(s, CONFIG.max_images) IN
        /\ image_files' = loaded
        /\ thumbs' = thumbs \cup Range(loaded)
        /\ shown' = IF loaded # <<>> THEN display_image(disk, loaded[1]) ELSE shown
        /\ inserted' = loaded

\* Thread.is_alive(): true until the thread's bootstrap has finished, so also
\* while the thread is leaving cycle_images.
is_alive(t) == pc[t] \notin {"none", "dead"}

\* Mutant of ShouldSpawn: the liveness test is forgotten.
ShouldSpawn_Always == TRUE

\* server.py:132.
ShouldSpawn == cycle_thread = NoThread \/ ~is_alive(cycle_thread)

\* start_cycling (server.py:129-134).  A new Thread object takes a free slot;
\* the objects of finished threads are dropped.
start_cycling ==
    IF ShouldSpawn
    THEN \E t \in Threads :
            /\ pc[t] = "none"
            /\ \A u \in Threads : pc[u] = "none" => t <= u
            /\ cycle_thread' = t
            /\ pc' = [u \in Threads |->
                        IF u = t THEN "while"
                        ELSE IF pc[u] = "dead" THEN "none" ELSE pc[u]]
    ELSE UNCHANGED <<cycle_thread, pc>>

\* startup_event (server.py:175-179).
Startup ==
    /\ ~booted
    /\ booted' = TRUE
    /\ load_existing_images
    /\ start_cycling
    /\ UNCHANGED <<current_image_index, cycling_enabled, CONFIG, disk, clock, img,
                   req, response, evicted, base, ticks, clean,
                   HEIC_SUPPORT, panel_ok, config_json>>

\* The collection changed: ticks under way no longer count as ticks on an
\* unchanged collection, and the count restarts from the present cursor.
CollectionChanged ==
    /\ clean' = [t \in Threads |-> FALSE]
    /\ base' = current_image_index
    /\ ticks' = 0

\* Mutant of NeedsEviction: the limit is off by one.
NeedsEviction_OffByOne(files) == Len(files) > CONFIG.max_images + 1

\* server.py:230.
NeedsEviction(files) == Len(files) > CONFIG.max_images

\* server.py:232-236: the artifacts of the evicted element are removed.
EvictDisk(d, oldest) == Unlink(d, oldest)
\* Mutant of EvictThumbs: the thumbnail is left behind.
EvictThumbs_Keep(th, oldest) == th

EvictThumbs(th, oldest) == th \ {oldest}

\* The uploaded file: its declared extension and whether PIL can decode it.
Uploads == [ext : {"jpg", "heic"}, decodable : BOOLEAN]

\* Mutant of Rejected: the codec check is skipped.
Rejected_NoCodecCheck(file) == ~file.decodable

\* server.py:187-206: HEIC without the codec, or Image.open raises.
Rejected(file) == (file.ext = "heic" /\ ~HEIC_SUPPORT) \/ ~file.decodable

\* upload_image, server.py:185-227: decode, save under the timestamp's name,
\* append, create the thumbnail.
UploadAppend(file) ==
    /\ booted
    /\ req.pc = "idle"
    /\ ~Rejected(file)
    /\ Len(inserted) < MaxInserts
    /\ LET filepath == clock IN
        /\ disk' = WriteFile(disk, filepath, clock)
        /\ image_files' = Append(image_files, filepath)
        /\ thumbs' = create_thumbnail(thumbs, filepath)
        /\ inserted' = Append(inserted, filepath)
        /\ req' = [pc |-> "appended", filepath |-> filepath]
    /\ CollectionChanged
    /\ UNCHANGED <<current_image_index, cycling_enabled, cycle_thread, CONFIG, clock,
                   shown, booted, pc, img, response, evicted,
                   HEIC_SUPPORT, panel_ok, config_json>>

\* server.py:232: Path.unlink of a file that is not there raises
\* FileNotFoundError.
UnlinkRaises(files, d) == NeedsEviction(files) /\ Head(files) \notin DOMAIN d

\* upload_image, server.py:229-246: evict the oldest when over the limit, render
\* the new image, answer.  unlink of a missing file raises, which the handler
\* turns into a 400 after the pop.
UploadFinish ==
    /\ req.pc = "appended"
    /\ req' = [pc |-> "idle", filepath |-> NoImage]
    /\ LET evict == NeedsEviction(image_files)
           oldest == Head(image_files)
       IN
       /\ IF evict
          THEN /\ image_files' = Tail(image_files)
               /\ evicted' = evicted \cup {oldest}
               /\ CollectionChanged
          ELSE UNCHANGED <<image_files, evicted, base, ticks, clean>>
       /\ IF UnlinkRaises(image_files, disk)
          THEN /\ UNCHANGED <<disk, thumbs, shown>>
               /\ response' = 400
          ELSE /\ disk' = IF evict THEN EvictDisk(disk, oldest) ELSE disk
               /\ thumbs' = IF evict THEN EvictThumbs(thumbs, oldest) ELSE thumbs
               /\ IF display_raises(disk', req.filepath)
                  THEN /\ UNCHANGED shown
                       /\ response' = 400
                  ELSE /\ shown' = display_image(disk', req.filepath)
                       /\ response' = 200
    /\ UNCHANGED <<current_image_index, cycling_enabled, cycle_thread, CONFIG, clock,
                   booted, pc, img, inserted,
                   HEIC_SUPPORT, panel_ok, config_json>>

\* upload_image, server.py:187-206, 243-246: the upload is turned down with a
\* 400 before anything is saved.
UploadReject(file) ==
    /\ booted
    /\ req.pc = "idle"
    /\ Rejected(file)
    /\ response' = 400
    /\ UNCHANGED <<image_files, current_image_index, cycling_enabled, cycle_thread,
                   CONFIG, disk, thumbs, clock, shown, booted, pc, img, req,
                   inserted, evicted, base, ticks, clean,
                   HEIC_SUPPORT, panel_ok, config_json>>

\* Mutant of update_config: the collection is cut to the new limit at once.
update_config_Evicts(config) ==
    /\ booted
    /\ req.pc = "idle"
    /\ CONFIG' = Merge(CONFIG, config)
    /\ config_json' = SaveConfig(CONFIG')
    /\ response' = 200
    /\ image_files' = TailSlice(image_files, CONFIG'.max_images)
    /\ UNCHANGED <<current_image_index, cycling_enabled, cycle_thread, disk, thumbs,
                   clock, shown, booted, pc, img, req, inserted, evicted, base,
                   ticks, clean, HEIC_SUPPORT, panel_ok>>

\* update_config (server.py:265-275): the body is merged into CONFIG and the
\* result is written to config.json.
update_config(config) ==
    /\ booted
    /\ req.pc = "idle"
    /\ CONFIG' = Merge(CONFIG, config)
    /\ config_json' = SaveConfig(CONFIG')
    /\ response' = 200
    /\ UNCHANGED <<image_files, current_image_index, cycling_enabled, cycle_thread,
                   disk, thumbs, clock, shown, booted, pc, img, req,
                   inserted, evicted, base, ticks, clean,
                   HEIC_SUPPORT, panel_ok>>

\* update_config with {"max_images": m}.
UpdateConfig(m) == update_config([max_images |-> m])

\* ---------------------------------------------------------- the cycler
\* control_cycling (server.py:278-291).
ControlStart ==
    /\ booted
    /\ req.pc = "idle"
    /\ cycling_enabled' = TRUE
    /\ start_cycling
    /\ response' = 200
    /\ UNCHANGED <<image_files, current_image_index, CONFIG, disk, thumbs, clock,
                   shown, booted, img, req, inserted, evicted, base, ticks, clean,
                   HEIC_SUPPORT, panel_ok, config_json>>

ControlStop ==
    /\ booted
    /\ req.pc = "idle"
    /\ cycling_enabled' = FALSE
    /\ response' = 200
    /\ UNCHANGED <<image_files, current_image_index, cycle_thread, CONFIG, disk,
                   thumbs, clock, shown, booted, pc, img, req, inserted, evicted,
                   base, ticks, clean,
                   HEIC_SUPPORT, panel_ok, config_json>>

ControlInvalid ==
    /\ booted
    /\ req.pc = "idle"
    /\ response' = 400
    /\ UNCHANGED <<image_files, current_image_index, cycling_enabled, cycle_thread,
                   CONFIG, disk, thumbs, clock, shown, booted, pc, img, req,
                   inserted, evicted, base, ticks, clean,
                   HEIC_SUPPORT, panel_ok, config_json>>

\* The {action} of POST /api/cycle/{action}; the comparison is case sensitive.
CycleActions == {"start", "stop", "pause", "START"}

\* Mutant of control_cycling: whatever is not stop starts.
control_cycling_DefaultStart(action) ==
    IF action = "stop" THEN ControlStop ELSE ControlStart

\* control_cycling (server.py:278-291): the dispatch on action.
control_cycling(action) ==
    IF action = "start" THEN ControlStart
    ELSE IF action = "stop" THEN ControlStop
    ELSE ControlInvalid

\* Mutant of LoopCondition: the loop never looks at the flag.
LoopCondition_Forever == TRUE

\* server.py:121.
LoopCondition == cycling_enabled

\* Mutant of Truthy: the emptiness test is dropped.
Truthy_Always(files) == TRUE

\* server.py:122.
Truthy(files) == files # <<>>

\* Mutant of NextIndex: the cursor advances without wrapping.
NextIndex_NoWrap(idx, n) == idx + 1

\* server.py:124.
NextIndex(idx, n) == (idx + 1) % n

\* cycle_images, server.py:121: the while test.
ThreadWhile(t) ==
    /\ pc[t] = "while"
    /\ pc' = [pc EXCEPT ![t] = IF LoopCondition THEN "if" ELSE "returning"]
    /\ UNCHANGED <<image_files, current_image_index, cycling_enabled, cycle_thread,
                   CONFIG, disk, thumbs, clock, shown, booted, img, req, response,
                   inserted, evicted, base, ticks, clean,
                   HEIC_SUPPORT, panel_ok, config_json>>

\* server.py:122: if image_files.
ThreadIf(t) ==
    /\ pc[t] = "if"
    /\ IF Truthy(image_files)
       THEN /\ pc' = [pc EXCEPT ![t] = "index"]
            /\ clean' = [clean EXCEPT ![t] = TRUE]
       ELSE /\ pc' = [pc EXCEPT ![t] = "sleep"]
            /\ UNCHANGED clean
    /\ UNCHANGED <<image_files, current_image_index, cycling_enabled, cycle_thread,
                   CONFIG, disk, thumbs, clock, shown, booted, img, req, response,
                   inserted, evicted, base, ticks,
                   HEIC_SUPPORT, panel_ok, config_json>>

\* server.py:123: image_files[current_image_index]; IndexError ends the thread.
ThreadIndex(t) ==
    /\ pc[t] = "index"
    /\ IF current_image_index < Len(image_files)
       THEN /\ img' = [img EXCEPT ![t] = image_files[current_image_index + 1]]
            /\ pc' = [pc EXCEPT ![t] = "display"]
       ELSE /\ pc' = [pc EXCEPT ![t] = "raising"]
            /\ UNCHANGED img
    /\ UNCHANGED <<image_files, current_image_index, cycling_enabled, cycle_thread,
                   CONFIG, disk, thumbs, clock, shown, booted, req, response,
                   inserted, evicted, base, ticks, clean,
                   HEIC_SUPPORT, panel_ok, config_json>>

\* server.py:123: display_image(...).
ThreadDisplay(t) ==
    /\ pc[t] = "display"
    /\ shown' = display_image(disk, img[t])
    /\ img' = [img EXCEPT ![t] = NoImage]
    /\ pc' = [pc EXCEPT ![t] = IF display_raises(disk, img[t]) THEN "raising" ELSE "advance"]
    /\ UNCHANGED <<image_files, current_image_index, cycling_enabled, cycle_thread,
                   CONFIG, disk, thumbs, clock, booted, req, response,
                   inserted, evicted, base, ticks, clean,
                   HEIC_SUPPORT, panel_ok, config_json>>

\* server.py:124: the cursor advances modulo the length read now.
ThreadAdvance(t) ==
    /\ pc[t] = "advance"
    /\ IF Len(image_files) = 0
       THEN /\ pc' = [pc EXCEPT ![t] = "raising"]
            /\ UNCHANGED <<current_image_index, base, ticks, clean>>
       ELSE /\ current_image_index' = NextIndex(current_image_index, Len(image_files))
            /\ pc' = [pc EXCEPT ![t] = "sleep"]
            /\ clean' = [clean EXCEPT ![t] = FALSE]
            /\ IF clean[t] /\ ticks < MaxTicks
               THEN /\ ticks' = ticks + 1
                    /\ UNCHANGED base
               ELSE /\ ticks' = 0
                    /\ base' = current_image_index'
    /\ UNCHANGED <<image_files, cycling_enabled, cycle_thread, CONFIG, disk, thumbs,
                   clock, shown, booted, img, req, response, inserted, evicted,
                   HEIC_SUPPORT, panel_ok, config_json>>

\* server.py:126: time.sleep(CONFIG["cycle_interval"]) returns.
ThreadSleep(t) ==
    /\ pc[t] = "sleep"
    /\ pc' = [pc EXCEPT ![t] = "while"]
    /\ UNCHANGED <<image_files, current_image_index, cycling_enabled, cycle_thread,
                   CONFIG, disk, thumbs, clock, shown, booted, img, req, response,
                   inserted, evicted, base, ticks, clean,
                   HEIC_SUPPORT, panel_ok, config_json>>

\* cycle_images has returned or raised; the thread finishes.
ThreadExit(t) ==
    /\ pc[t] \in {"returning", "raising"}
    /\ pc' = [pc EXCEPT ![t] = "dead"]
    /\ UNCHANGED <<image_files, current_image_index, cycling_enabled, cycle_thread,
                   CONFIG, disk, thumbs, clock, shown, booted, img, req, response,
                   inserted, evicted, base, ticks, clean,
                   HEIC_SUPPORT, panel_ok, config_json>>

\* The wall clock reaches the next second.
Tock ==
    /\ clock < LastSecond
    /\ clock' = clock + 1
    /\ UNCHANGED <<image_files, current_image_index, cycling_enabled, cycle_thread,
                   CONFIG, disk, thumbs, shown, booted, pc, img, req, response,
                   inserted, evicted, base, ticks, clean,
                   HEIC_SUPPORT, panel_ok, config_json>>

\* GET /api/display/{index}, the request of the UI's displayImage
\* (server.py:604-611): no route of the application matches it, so the
\* framework answers 404.
DisplayRequest(index) ==
    /\ booted
    /\ req.pc = "idle"
    /\ response' = 404
    /\ UNCHANGED <<image_files, current_image_index, cycling_enabled, cycle_thread,
                   CONFIG, disk, thumbs, clock, shown, booted, pc, img, req,
                   inserted, evicted, base, ticks, clean,
                   HEIC_SUPPORT, panel_ok, config_json>>

\* get_images (server.py:249-256).
get_images ==
    [images |-> image_files,
     current_index |-> current_image_index,
     total |-> Len(image_files)]

\* get_config (server.py:259-262).
get_config == CONFIG

ThreadStep ==
    \E t \in Threads :
        \/ ThreadWhile(t)
        \/ ThreadIf(t)
        \/ ThreadIndex(t)
        \/ ThreadDisplay(t)
        \/ ThreadAdvance(t)
        \/ ThreadSleep(t)
        \/ ThreadExit(t)

\* Everything but update_config: CONFIG stays as loaded.
NextFixed ==
    \/ Startup
    \/ \E file \in Uploads : UploadAppend(file)
    \/ UploadFinish
    \/ \E file \in Uploads : UploadReject(file)
    \/ ControlStart
    \/ ControlStop
    \/ ControlInvalid
    \/ ThreadStep
    \/ Tock

Next ==
    \/ NextFixed
    \/ \E m \in MaxImagesValues : UpdateConfig(m)

Spec == Init /\ [][Next]_vars

SpecFixed == Init /\ [][NextFixed]_vars

\* The store and the configuration alone: the cycling thread stays asleep.
NextConfig ==
    \/ Startup
    \/ \E file \in Uploads : UploadAppend(file)
    \/ UploadFinish
    \/ \E config \in ConfigRequests : update_config(config)
    \/ Tock

SpecConfig == InitConfig /\ [][NextConfig]_vars

\* Startup under any saved limit, accepted uploads, the cycle control with any
\* action, and the cycling thread.
NextCycle ==
    \/ Startup
    \/ \E file \in Uploads : UploadAppend(file)
    \/ UploadFinish
    \/ \E action \in CycleActions : control_cycling(action)
    \/ ThreadStep
    \/ Tock

SpecCycle == InitLoad /\ [][NextCycle]_vars

\* CONFIG as loaded, any codec and panel, and the UI's display request.
NextEnv ==
    \/ Startup
    \/ \E file \in Uploads : UploadAppend(file)
    \/ UploadFinish
    \/ \E file \in Uploads : UploadReject(file)
    \/ ControlStart
    \/ ControlStop
    \/ ThreadStep
    \/ Tock
    \/ \E index \in 0..MaxMaxImages : DisplayRequest(index)

SpecEnv == InitEnv /\ [][NextEnv]_vars

\* ================================================================ claims
Quiescent == booted /\ req.pc = "idle"

LoopPcs == {"while", "if", "index", "display", "advance", "sleep"}

\* A loop iteration that has passed the while test and not yet reached the sleep.
TickInProgress(t) == pc[t] \in {"if", "index", "display", "advance"}

\* C1: with max_images fixed and positive, whenever no upload is in flight the
\* collection holds at most max_images elements and is exactly the last
\* min(n, max_images) of the n paths put into it, in insertion order.
C1_BoundedFifo ==
    (Quiescent /\ CONFIG.max_images > 0) =>
        /\ Len(image_files) <= CONFIG.max_images
        /\ image_files = LastN(inserted, Min(Len(inserted), CONFIG.max_images))

\* Three inserts under max_images = 2: the first is gone, the upload succeeded.
C1_Witness ==
    /\ Quiescent
    /\ response = 200
    /\ CONFIG.max_images = 2
    /\ Len(inserted) = 3
    /\ Len(image_files) = 2
    /\ evicted # {}

\* C2: whenever the collection is non-empty the cursor is a valid index of it.
C2_CursorInRange ==
    image_files # <<>> => current_image_index < Len(image_files)

\* C3: no step of the loop's tick that reads the collection runs between an
\* upload's append and the eviction that append makes necessary.
C3_TickNeverMidUpload ==
    [][(\E t \in Threads : ThreadIf(t) \/ ThreadIndex(t) \/ ThreadAdvance(t))
          => ~(req.pc = "appended" /\ NeedsEviction(image_files))]_vars

\* C4: on a non-empty collection of length L left unchanged, after K >= 1 whole
\* ticks the cursor is (initial cursor + K) mod L, and the tick that follows K
\* whole ticks renders the image at index (initial cursor + K) mod L.
C4_CursorAfterTicks ==
    image_files # <<>> =>
        LET L == Len(image_files) IN
        /\ ticks >= 1 => current_image_index = (base + ticks) % L
        /\ \A t \in Threads :
              (pc[t] = "display" /\ clean[t]) =>
                  img[t] = image_files[((base + ticks) % L) + 1]

\* Two whole ticks on two images have wrapped the cursor, and the third tick is
\* about to render the image it started from.
C4_Witness ==
    /\ Len(image_files) = 2
    /\ ticks = 2
    /\ current_image_index = base
    /\ \E t \in Threads :
          pc[t] = "display" /\ clean[t] /\ img[t] = image_files[base + 1]

\* C5: a tick that finds the collection empty goes to sleep and changes neither
\* the panel, the cursor, the collection nor the enabled flag.
C5_EmptyTickNoOp ==
    [][\A t \in Threads :
          (pc[t] = "if" /\ image_files = <<>> /\ pc'[t] # pc[t]) =>
              /\ pc'[t] = "sleep"
              /\ UNCHANGED <<shown, current_image_index, image_files, cycling_enabled>>]_vars

\* The loop sleeps after a tick on a collection nothing was ever put in.
C5_Witness ==
    /\ inserted = <<>>
    /\ image_files = <<>>
    /\ shown = NoImage
    /\ current_image_index = 0
    /\ \E t \in Threads : pc[t] = "sleep"

\* Cycling is stopped and no tick is under way.
StoppedQuiet == ~cycling_enabled /\ \A t \in Threads : ~TickInProgress(t)

\* C6: once cycling is stopped and no tick is under way, every step that is not
\* a Start leaves it so: no tick begins, the loop renders nothing and the cursor
\* stays.
C6_StopStopsTicks ==
    [][(StoppedQuiet /\ ~cycling_enabled') =>
          /\ StoppedQuiet'
          /\ current_image_index' = current_image_index
          /\ ~(\E t \in Threads : ThreadDisplay(t) \/ ThreadAdvance(t))]_vars

\* Stopped with images to show: the loop has ended.
C6_Witness ==
    /\ ~cycling_enabled
    /\ image_files # <<>>
    /\ cycle_thread # NoThread
    /\ pc[cycle_thread] = "dead"

\* C7: at most one cycling thread is alive.
C7_SingleLoop == Cardinality({t \in Threads : is_alive(t)}) <= 1

\* A thread spawned by Start after the first one ended is rendering.
C7_Witness ==
    /\ cycle_thread = 2
    /\ pc[2] = "display"
    /\ pc[1] = "none"

\* C8: a Start request leaves a loop that will go on ticking.
C8_StartLeavesLiveLoop ==
    [][ControlStart => \E t \in Threads : pc'[t] \in LoopPcs]_vars

\* C9: an identifier that was evicted and is no longer in the collection has
\* neither its image file nor its thumbnail on disk.
C9_NoDanglingArtifacts ==
    \A x \in evicted :
        x \notin Range(image_files) => x \notin DOMAIN disk /\ x \notin thumbs

\* An upload has evicted an identifier that is gone from the collection.
C9_Witness ==
    /\ Quiescent
    /\ response = 200
    /\ \E x \in evicted : x \notin Range(image_files)

\* C10: the identifiers in the collection are pairwise distinct (stated for the
\* states between requests, where a repeated name is there to stay).
C10_DistinctIdentifiers == Quiescent => NoDuplicates(image_files)

\* The ranges the configuration fields are meant to stay in (saturation in
\* tenths).
InRange(config) ==
    /\ "max_images" \in DOMAIN config => config.max_images > 0
    /\ "cycle_interval" \in DOMAIN config => config.cycle_interval > 0
    /\ "saturation" \in DOMAIN config => config.saturation \in 0..10

\* C11: a configuration update carrying an out-of-range field is answered with
\* an error and changes neither CONFIG nor config.json.
C11_OutOfRangeRejected ==
    [][\A config \in ConfigRequests :
          (update_config(config) /\ ~InRange(config))
              => (response' # 200 /\ UNCHANGED <<CONFIG, config_json>>)]_vars

\* C12: after an update answered 200, GET /api/config returns the requested
\* value of every field of the request and the former value of every other
\* field, and loading config.json over the defaults gives the same max_images,
\* cycle_interval and saturation as CONFIG holds.
C12_UpdateReadBackAndPersist ==
    [][\A config \in ConfigRequests :
          (update_config(config) /\ response' = 200)
              => /\ DOMAIN get_config' = DOMAIN CONFIG
                 /\ \A k \in DOMAIN config : get_config'[k] = config[k]
                 /\ \A k \in DOMAIN CONFIG \ DOMAIN config : get_config'[k] = CONFIG[k]
                 /\ \A k \in {"max_images", "cycle_interval", "saturation"} :
                        LoadConfig(config_json')[k] = CONFIG'[k]]_vars

\* An update has set max_images and saturation, and config.json holds them.
C12_Witness ==
    /\ CONFIG.max_images = 2
    /\ CONFIG.saturation = 3
    /\ CONFIG.cycle_interval = DefaultCycleInterval
    /\ config_json # NoFile
    /\ LoadConfig(config_json).max_images = 2
    /\ LoadConfig(config_json).saturation = 3

\* C13: an update that sets max_images below the length of the collection
\* leaves the collection, the cursor, the files and the thumbnails as they are.
C13_LoweringEvictsNothing ==
    [][\A config \in ConfigRequests :
          (/\ "max_images" \in DOMAIN config
           /\ config.max_images < Len(image_files)
           /\ update_config(config))
              => UNCHANGED <<image_files, current_image_index, disk, thumbs>>]_vars

\* Between requests the collection is longer than the limit: the limit was
\* lowered under it.
C13_Witness ==
    /\ Quiescent
    /\ CONFIG.max_images = 1
    /\ Len(image_files) = 2
    /\ \A x \in Range(image_files) : x \in DOMAIN disk /\ x \in thumbs

\* C14: after an upload of a fresh name answered 200 under a positive limit,
\* the collection is no longer than max_images.
C14_BoundAfterInsert ==
    [][(/\ UploadFinish
        /\ response' = 200
        /\ CONFIG.max_images > 0
        /\ NoDuplicates(image_files))
          => Len(image_files') <= CONFIG.max_images]_vars

\* C15: an upload answered 200 has rendered the new image on the (working)
\* panel, whatever the cursor and whether or not cycling is enabled: its render
\* did not fail and the panel shows its path.
C15_UploadRendersNewImage ==
    [][(UploadFinish /\ response' = 200 /\ panel_ok)
          => /\ ~RenderFails(disk', req.filepath)
             /\ shown' = req.filepath]_vars

\* C16: after an upload answered 200, the current_index of GET /api/images is
\* the index of the last element of the collection.
C16_CurrentIndexIsNewest ==
    [][(UploadFinish /\ response' = 200)
          => get_images'.current_index = get_images'.total - 1]_vars

\* C17: the UI's display request for an index inside the collection is
\* answered 200, sets the cursor to the index and renders the image there; for
\* an index outside it is turned down and leaves the cursor.
C17_JumpToSetsCursorAndRenders ==
    [][\A index \in 0..MaxMaxImages :
          (DisplayRequest(index) /\ panel_ok)
              => IF index < Len(image_files)
                 THEN /\ response' = 200
                      /\ current_image_index' = index
                      /\ shown' = image_files[index + 1]
                 ELSE /\ response' # 200
                      /\ UNCHANGED current_image_index]_vars

\* C18: a render that fails inside an upload leaves the upload answered 200
\* with the new path last in the collection; a render that fails inside a tick
\* leaves the thread at the cursor advance, not on its way out.
C18_DisplayFailureSwallowed ==
    [][/\ (/\ UploadFinish
           /\ ~UnlinkRaises(image_files, disk)
           /\ RenderFails(disk', req.filepath))
          => /\ response' = 200
             /\ image_files' # <<>>
             /\ image_files'[Len(image_files')] = req.filepath
       /\ \A t \in Threads :
             (ThreadDisplay(t) /\ RenderFails(disk, img[t])) => pc'[t] = "advance"]_vars

\* With a broken panel an upload was answered 200 and a tick has moved the
\* cursor on, the thread sleeping until its next tick.
C18_Witness ==
    /\ ~panel_ok
    /\ shown = NoImage
    /\ Quiescent
    /\ response = 200
    /\ Len(inserted) >= 2
    /\ current_image_index = 1
    /\ \E t \in Threads : pc[t] = "sleep"

\* C19: when the evicted element's file is already gone, the upload is still
\* answered 200, the new image is rendered, and the collection is the former
\* one with the new element appended and the oldest removed.
C19_UnlinkFailureNotSurfaced ==
    [][(UploadFinish /\ UnlinkRaises(image_files, disk) /\ panel_ok)
          => /\ response' = 200
             /\ shown' = req.filepath
             /\ image_files' = Tail(image_files)]_vars

\* C20: an upload whose body cannot be decoded, or that is HEIC while the codec
\* is missing, is answered 400 and changes neither the collection, the cursor,
\* the files, the thumbnails nor what the panel shows.
C20_RejectedUploadChangesNothing ==
    [][\A file \in Uploads :
          (/\ UploadAppend(file) \/ UploadReject(file)
           /\ ~file.decodable \/ (file.ext = "heic" /\ ~HEIC_SUPPORT))
              => /\ response' = 400
                 /\ UNCHANGED <<image_files, current_image_index, disk, thumbs, shown>>]_vars

\* Without the codec an upload was answered 400 although nothing was ever
\* evicted: a rejected upload, the store still holding what was loaded.
C20_Witness ==
    /\ ~HEIC_SUPPORT
    /\ response = 400
    /\ evicted = {}
    /\ image_files # <<>>
    /\ image_files = inserted

\* C21: startup's load leaves a collection of min(max_images, number of files)
\* distinct files of the upload directory, none older than a file left out,
\* in ascending order of modification time, and the cursor at 0.
C21_LoadKeepsNewest ==
    [][Startup =>
          /\ Len(image_files') = Min(CONFIG.max_images, Cardinality(DOMAIN disk))
          /\ NoDuplicates(image_files')
          /\ Range(image_files') \subseteq DOMAIN disk
          /\ \A i, j \in 1..Len(image_files') :
                i < j => disk[image_files'[i]] <= disk[image_files'[j]]
          /\ \A x \in DOMAIN disk \ Range(image_files') :
                \A y \in Range(image_files') : disk[x] <= disk[y]
          /\ current_image_index' = 0]_vars

\* C22: once the server has started and no upload is in flight, every path in
\* the collection has its image file in the upload directory.
C22_EntriesHaveFiles ==
    (booted /\ Quiescent) => \A x \in Range(image_files) : x \in DOMAIN disk

\* C23: no thread is ever on its way out of cycle_images through an uncaught
\* exception while cycling is enabled.
C23_LoopNeverRaises ==
    cycling_enabled => \A t \in Threads : pc[t] # "raising"

\* C24: a cycle request whose action is neither start nor stop is answered 400
\* and leaves the flag, the thread, the cursor and the collection as they
\* are; a step that enables the flag is the start request and a step that
\* disables it is the stop request, and each of them sets the flag its way.
C24_InvalidActionRejected ==
    [][/\ \A action \in CycleActions :
             control_cycling(action) =>
                 IF action = "start" THEN cycling_enabled'
                 ELSE IF action = "stop" THEN ~cycling_enabled'
                 ELSE /\ response' = 400
                      /\ UNCHANGED <<cycling_enabled, cycle_thread, pc,
                                     current_image_index, image_files>>
       /\ (~cycling_enabled /\ cycling_enabled') => control_cycling("start")
       /\ (cycling_enabled /\ ~cycling_enabled') => control_cycling("stop")]_vars

\* With cycling stopped and the loop ended, a request was answered 400 although
\* no upload ever evicted: the invalid action, which left the flag off.
C24_Witness ==
    /\ response = 400
    /\ evicted = {}
    /\ ~cycling_enabled
    /\ cycle_thread # NoThread
    /\ pc[cycle_thread] = "dead"

====
